---- MODULE Spec2Model ----
(***************************************************************************)
(* Model of pruning/pruning.ipynb: unstructured L1 (magnitude) pruning of  *)
(* the Conv2d and Linear layers of a classifier, sparsity accounting, the  *)
(* evaluation loop and the fine-tuning loop.                               *)
(*                                                                         *)
(* A tensor is the sequence of its elements in flattened (view(-1)) order. *)
(* A float32 value is the integer sign * bits, bits being the IEEE-754     *)
(* single-precision bit pattern of its magnitude: 0 is 0.0 (and -0.0,      *)
(* which equals it in every comparison), 1065353216 is 1.0, 2139095040 is  *)
(* inf, and a larger integer is a larger float.  Every NaN is the one      *)
(* value NaN, which is above inf as torch.topk ranks it.  Products and     *)
(* sums are rounded to nearest, ties to even, as the float32 kernels round *)
(* them.  A mask element (0.0 or 1.0) is written 0 or 1.                   *)
(* An absent attribute (hasattr(...) = False) is the empty sequence.       *)
(***************************************************************************)
EXTENDS Integers, Sequences, FiniteSets, TLC

VARIABLES
    objs,          \* the heap: object id -> the modules of one model object
    model,         \* notebook global `model`: an object id, 0 = unbound
    model_pruned,  \* notebook global `model_pruned`: an object id, 0 = unbound
    optimizer,     \* notebook global `optimizer`: the SGD object, or NoOptimizer
    pc,            \* the notebook cell that runs next ("calls": free calls)
    batch,         \* number of batches the running loop has consumed
    epoch,         \* number of fine-tuning epochs completed
    correct,       \* notebook global `correct`
    total,         \* notebook global `total` (evaluation and accounting share it)
    zero,          \* notebook global `zero`
    ckpt,          \* the state dict stored in ../data/teacher_resnet.pth
    test_y,        \* labels of the test set, in loader order (shuffle=False)
    misses,        \* history: examples of the running evaluation predicted wrongly
    outcome,       \* how the last call or cell ended: "ok", "ValueError",
                   \* "TypeError", "RuntimeError", "ZeroDivisionError"
    calls,         \* history: number of pruning calls, the last amount, and
                   \* whether the call before it had the same amount
    before,        \* history: modules of the model before the last pruning call
    first_count,   \* history: result of the first count_pruned_weights call
    topk           \* the results torch.topk has returned so far, by input

vars == <<objs, model, model_pruned, optimizer, pc, batch, epoch, correct,
          total, zero, ckpt, test_y, misses, outcome, calls, before, first_count,
          topk>>

----------------------------------------------------------------------------
(* Bounds of the model.                                                    *)

NumelConv == 3      \* elements of conv1.weight
NumelFc == 2        \* elements of fc.weight
MaxW == 1           \* checkpoint weights lie in -1 .. MaxW
MaxCalls == 2       \* pruning calls explored by the free-call specification
TestSize == 4       \* examples in the test set
BatchSize == 3      \* examples per batch (the last batch may be smaller)
TrainSize == 2      \* examples in the training set
NumClasses == 2     \* class labels 1 .. NumClasses
FreeGradSteps == 2  \* steps of a fine-tuning run whose gradients vary freely;
                    \* the later steps see the gradient of the step before

(* Program constants.                                                      *)
Epochs == 15        \* for epoch in range(15)
Momentum == 1063675494      \* momentum=0.9 as float32: 0x3F666666
LearningRate == 981668463   \* lr=1e-3 as float32: 0x3A83126F

----------------------------------------------------------------------------
(* The toy architecture: named_modules() order.                            *)

LayerNames == <<"conv1", "bn1", "relu", "fc">>
Layers == {LayerNames[i] : i \in 1..Len(LayerNames)}

Kind(l) ==
    CASE l = "conv1" -> "Conv2d"
      [] l = "bn1"   -> "BatchNorm2d"
      [] l = "relu"  -> "ReLU"
      [] l = "fc"    -> "Linear"

Abs(x) == IF x < 0 THEN -x ELSE x

Ones(n) == [i \in 1..n |-> 1]

\* (mask == 0).sum().item()
CountZeros(mask) == Cardinality({i \in 1..Len(mask) : mask[i] = 0})

HasAttr(m, attr) == m[attr] # <<>>

----------------------------------------------------------------------------
(* float32 arithmetic.  A finite non-zero float is mant * 2^expo with      *)
(* 2^23 <= mant < 2^24; exact intermediate results are naturals below      *)
(* 2^72, held as three limbs <<high, middle, low>> of 24 bits.  A bit      *)
(* shifted out to the right is kept as a 1 in the lowest bit (sticky).     *)

Pow2(k) == 2^k
Min(a, b) == IF a < b THEN a ELSE b
Max(a, b) == IF a < b THEN b ELSE a
Sign(x) == IF x < 0 THEN -1 ELSE 1

RECURSIVE BitLen(_)
BitLen(n) ==
    IF n = 0 THEN 0
    ELSE IF n >= 4096 THEN 12 + BitLen(n \div 4096)
    ELSE IF n >= 64 THEN 6 + BitLen(n \div 64)
    ELSE 1 + BitLen(n \div 2)

Limb == Pow2(24)
Infinity == 255 * Pow2(23)      \* 0x7F800000
NaN == Infinity + Pow2(22)      \* 0x7FC00000

IsNaN(x) == Abs(x) > Infinity
IsInf(x) == Abs(x) = Infinity

\* The stored exponent and fraction fields of a float.
ExpField(x) == Abs(x) \div Pow2(23)
Fraction(x) == Abs(x) % Pow2(23)

\* mant and expo of a non-zero float, a subnormal brought to 24 bits.
Mant(x) ==
    IF ExpField(x) = 0 THEN Fraction(x) * Pow2(24 - BitLen(Fraction(x)))
    ELSE Pow2(23) + Fraction(x)
Expo(x) ==
    IF ExpField(x) = 0 THEN BitLen(Fraction(x)) - 173 ELSE ExpField(x) - 150

\* The float of sign s nearest to M * 2^e (0 < M < 2^31), ties to even,
\* with gradual underflow and overflow to infinity.
Pack(s, M, e) ==
    LET n == BitLen(M)
        sh == Max(n - 24, (-149) - e)
        m == IF sh <= 0 THEN M * Pow2(-sh)
             ELSE IF sh > n THEN 0
             ELSE LET q == M \div Pow2(sh)
                      r == M % Pow2(sh)
                      half == Pow2(sh - 1)
                  IN  IF r > half \/ (r = half /\ q % 2 = 1) THEN q + 1 ELSE q
        bits == IF m < Pow2(23) THEN m ELSE (e + sh + 149) * Pow2(23) + m
    IN  IF e + sh > 104 THEN s * Infinity ELSE s * Min(bits, Infinity)

\* float(i) of a small Python int
F32(i) == IF i = 0 THEN 0 ELSE Pack(Sign(i), Abs(i), 0)

WideLen(x) ==
    IF x[1] # 0 THEN 48 + BitLen(x[1])
    ELSE IF x[2] # 0 THEN 24 + BitLen(x[2]) ELSE BitLen(x[3])

\* x * 2^k, for a product below 2^72
WideShl(x, k) ==
    LET q == k \div 24
        r == k % 24
        y == IF q = 0 THEN x
             ELSE IF q = 1 THEN <<x[2], x[3], 0>> ELSE <<x[3], 0, 0>>
        low == Pow2(24 - r)
    IN  <<(y[1] % low) * Pow2(r) + y[2] \div low,
          (y[2] % low) * Pow2(r) + y[3] \div low,
          (y[3] % low) * Pow2(r)>>

\* x / 2^k, the bits shifted out kept as a sticky lowest bit
WideShr(x, k) ==
    IF k >= 72 THEN <<0, 0, IF x = <<0, 0, 0>> THEN 0 ELSE 1>>
    ELSE LET q == k \div 24
             r == k % 24
             y == IF q = 0 THEN x
                  ELSE IF q = 1 THEN <<0, x[1], x[2]>> ELSE <<0, 0, x[1]>>
             lost == IF q = 0 THEN 0
                     ELSE IF q = 1 THEN x[3] ELSE x[2] + x[3]
             m == Pow2(r)
             up == Pow2(24 - r)
             low == (y[2] % m) * up + y[3] \div m
             sticky == lost # 0 \/ y[3] % m # 0
         IN  <<y[1] \div m,
               (y[1] % m) * up + y[2] \div m,
               IF sticky /\ low % 2 = 0 THEN low + 1 ELSE low>>

WideAdd(x, y) ==
    LET lo == x[3] + y[3]
        mid == x[2] + y[2] + lo \div Limb
    IN  <<x[1] + y[1] + mid \div Limb, mid % Limb, lo % Limb>>

\* x - y, for x >= y
WideSub(x, y) ==
    LET lo == x[3] - y[3]
        b0 == IF lo < 0 THEN 1 ELSE 0
        mid == x[2] - y[2] - b0
        b1 == IF mid < 0 THEN 1 ELSE 0
    IN  <<x[1] - y[1] - b1, mid + b1 * Limb, lo + b0 * Limb>>

WideLess(x, y) ==
    \/ x[1] < y[1]
    \/ x[1] = y[1] /\ x[2] < y[2]
    \/ x[1] = y[1] /\ x[2] = y[2] /\ x[3] < y[3]

\* The exact product of two 24-bit mantissas, from their 12-bit halves.
WideMul(a, b) ==
    LET a1 == a \div 4096
        a0 == a % 4096
        b1 == b \div 4096
        b0 == b % 4096
        mid == a1 * b0 + a0 * b1
        lo == a0 * b0 + (mid % 4096) * 4096
    IN  <<0, a1 * b1 + mid \div 4096 + lo \div Limb, lo % Limb>>

\* The float of sign s nearest to Z * 2^e, Z a non-zero wide natural.
RoundWide(s, Z, e) ==
    LET n == WideLen(Z)
        sh == Max(n - 30, 0)
        R == WideShr(Z, sh)
    IN  Pack(s, R[2] * Limb + R[3], e + sh)

\* a * b + c rounded once, for finite a, b and c.
FmaFinite(a, b, c) ==
    IF a = 0 \/ b = 0 THEN c
    ELSE LET P == WideMul(Mant(a), Mant(b))
             ep == Expo(a) + Expo(b)
             sp == Sign(a) * Sign(b)
         IN  IF c = 0 THEN RoundWide(sp, P, ep)
             ELSE LET C == <<0, 0, Mant(c)>>
                      ec == Expo(c)
                      first == ep >= ec
                      X == IF first THEN P ELSE C
                      Y == IF first THEN C ELSE P
                      sx == IF first THEN sp ELSE Sign(c)
                      sy == IF first THEN Sign(c) ELSE sp
                      d == Abs(ep - ec)
                      sl == Min(d, 71 - WideLen(X))
                      X1 == WideShl(X, sl)
                      Y1 == WideShr(Y, d - sl)
                      e == Max(ep, ec) - sl
                  IN  IF sx = sy THEN RoundWide(sx, WideAdd(X1, Y1), e)
                      ELSE IF X1 = Y1 THEN 0
                      ELSE IF WideLess(X1, Y1)
                           THEN RoundWide(sy, WideSub(Y1, X1), e)
                           ELSE RoundWide(sx, WideSub(X1, Y1), e)

\* a * b + c rounded once: the fused multiply-add, and with c = 0 or
\* b = 1.0 the float32 product and sum.  A NaN operand, inf * 0 and
\* inf - inf give NaN; an infinite product or addend gives that infinity.
Fma(a, b, c) ==
    IF IsNaN(a) \/ IsNaN(b) \/ IsNaN(c) THEN NaN
    ELSE IF IsInf(a) \/ IsInf(b)
    THEN IF a = 0 \/ b = 0 THEN NaN
         ELSE IF IsInf(c) /\ Sign(c) # Sign(a) * Sign(b) THEN NaN
         ELSE Sign(a) * Sign(b) * Infinity
    ELSE IF IsInf(c) THEN c
    ELSE FmaFinite(a, b, c)

FMul(a, b) == Fma(a, b, 0)
FAdd(a, b) == Fma(a, F32(1), b)

\* x * m for a mask element m: x * 1.0 is x; x * 0.0 is 0.0 for a finite
\* x and NaN for an infinite x or a NaN.
MaskMul(x, m) == IF m = 1 THEN x ELSE IF IsInf(x) \/ IsNaN(x) THEN NaN ELSE 0

\* mask.to(dtype) * orig
Mul(orig, mask) == [i \in 1..Len(orig) |-> MaskMul(orig[i], mask[i])]

----------------------------------------------------------------------------
(* Pruning amounts.  A Python float is the exact fraction num/den (the     *)
(* quarters used here are exact in binary floating point); a Python int    *)
(* has den = 1 and is an absolute number of weights.                       *)

FloatAmount(n, d) == [kind |-> "float", num |-> n, den |-> d]
IntAmount(n) == [kind |-> "int", num |-> n, den |-> 1]

FloatAmounts == {FloatAmount(n, 4) : n \in -1..5}
IntAmounts == {IntAmount(n) : n \in -1..(NumelConv + 1)}
Amounts == FloatAmounts \cup IntAmounts

Half == FloatAmount(2, 4)   \* amount=0.5

InUnitInterval(a) == a.num >= 0 /\ a.num <= a.den

\* Mutant: the amount is never validated when the method is built.
ValidateNothing(a) == TRUE

\* torch.nn.utils.prune._validate_pruning_amount_init: a negative int, or a
\* float outside [0, 1], raises ValueError.
ValidatePruningAmountInit(a) ==
    IF a.kind = "int" THEN a.num >= 0 ELSE InUnitInterval(a)

\* Python round(n / d) for n >= 0, d > 0: round half to even.
Round(n, d) ==
    LET q == n \div d
        r == n % d
    IN  IF 2 * r < d THEN q
        ELSE IF 2 * r > d THEN q + 1
        ELSE IF q % 2 = 0 THEN q ELSE q + 1

\* Mutant: the number of weights to prune is rounded down.
ComputeNParamsFloor(a, tensor_size) ==
    IF a.kind = "int" THEN a.num ELSE (a.num * tensor_size) \div a.den

\* torch.nn.utils.prune._compute_nparams_toprune
ComputeNParamsToPrune(a, tensor_size) ==
    IF a.kind = "int" THEN a.num ELSE Round(a.num * tensor_size, a.den)

\* torch.nn.utils.prune._validate_pruning_amount: ValueError when more
\* parameters are to be pruned than the tensor has.
ValidatePruningAmount(nparams, tensor_size) == nparams <= tensor_size

\* Mutant: largest=True.
TopKLargest(t, k) ==
    {S \in SUBSET (1..Len(t)) :
        /\ Cardinality(S) = k
        /\ \A i \in S : \A j \in (1..Len(t)) \ S : Abs(t[i]) >= Abs(t[j])}

\* torch.topk(torch.abs(t).view(-1), k, largest=False).indices for an
\* input the kernel has not seen: every set of k indices of smallest
\* absolute value.  Which of several equal magnitudes is taken is left to
\* the kernel, so all choices are results.
TopKSmallest(t, k) ==
    {S \in SUBSET (1..Len(t)) :
        /\ Cardinality(S) = k
        /\ \A i \in S : \A j \in (1..Len(t)) \ S : Abs(t[i]) <= Abs(t[j])}

\* torch.abs(t)
AbsT(t) == [i \in 1..Len(t) |-> Abs(t[i])]

\* The results in memo for the input (torch.abs(t), k).
Known(memo, t, k) == {e \in memo : e.t = AbsT(t) /\ e.k = k}

\* torch.topk on the CPU is a function of its input: an input it has seen
\* gets the result it got before (again: it has been asked for again), a
\* new input gets one of its possible results, which memo then holds.
\* The set of outcomes [idx: the indices, memo: the results afterwards].
TopK(memo, t, k) ==
    IF Known(memo, t, k) # {}
    THEN {[idx |-> e.idx,
           memo |-> (memo \ {e}) \cup {[e EXCEPT !.again = TRUE]}] :
            e \in Known(memo, t, k)}
    ELSE {[idx |-> S,
           memo |-> memo \cup {[t |-> AbsT(t), k |-> k, idx |-> S,
                                again |-> FALSE]}] :
            S \in TopKSmallest(t, k)}

\* L1Unstructured.compute_mask(t, default_mask): the set of outcomes, each
\* a mask or a raised exception ("" for none), with the results of
\* torch.topk afterwards.  torch.topk itself raises RuntimeError for a k
\* outside 0 .. numel.
L1ComputeMask(a, t, default_mask, memo) ==
    LET tensor_size == Len(t)
        nparams_toprune == ComputeNParamsToPrune(a, tensor_size)
    IN  IF ~ValidatePruningAmount(nparams_toprune, tensor_size)
        THEN {[raised |-> "ValueError", mask |-> default_mask, memo |-> memo]}
        ELSE IF nparams_toprune = 0
        THEN {[raised |-> "", mask |-> default_mask, memo |-> memo]}
        ELSE IF nparams_toprune < 0 \/ nparams_toprune > tensor_size
        THEN {[raised |-> "RuntimeError", mask |-> default_mask, memo |-> memo]}
        ELSE {[raised |-> "",
               mask |-> [i \in 1..tensor_size |->
                            IF i \in r.idx THEN 0 ELSE default_mask[i]],
               memo |-> r.memo] :
                 r \in TopK(memo, t, nparams_toprune)}

\* The positions i with mask[i] = 1, in order (slc = mask == 1).
RECURSIVE Slice(_, _)
Slice(mask, i) ==
    IF i > Len(mask) THEN <<>>
    ELSE IF mask[i] = 1 THEN <<i>> \o Slice(mask, i + 1)
    ELSE Slice(mask, i + 1)

\* Mutant: a repeated pruning ranks the whole (masked) tensor again instead
\* of the entries the previous mask left alone.
ComputeMaskOverWhole(a, t, mask, memo) == L1ComputeMask(a, t, mask, memo)

\* PruningContainer.compute_mask / _combine_masks: the new method acts on
\* the entries t[slc] the previous mask left alone, and its partial mask is
\* written back at those positions.
ContainerComputeMask(a, t, mask, memo) ==
    LET slc == Slice(mask, 1)
        sub == [j \in 1..Len(slc) |-> t[slc[j]]]
    IN  {[raised |-> r.raised,
          mask |-> [i \in 1..Len(mask) |->
                      IF \E j \in 1..Len(slc) : slc[j] = i
                      THEN r.mask[CHOOSE j \in 1..Len(slc) : slc[j] = i]
                      ELSE mask[i]],
          memo |-> r.memo] :
            r \in L1ComputeMask(a, sub, Ones(Len(slc)), memo)}

\* prune.l1_unstructured(module, name='weight', amount=amount), that is
\* L1Unstructured.apply: the set of outcomes [m: the module afterwards,
\* raised: the exception raised, "" for none, memo: the results of
\* torch.topk afterwards].
L1Unstructured(m, a, memo) ==
    LET old_method == m.hook
        unhooked == [m EXCEPT !.hook = FALSE]
    IN  IF ~ValidatePruningAmountInit(a)
        THEN {[m |-> unhooked, raised |-> "ValueError", memo |-> memo]}
        ELSE IF ~old_method
        THEN IF HasAttr(m, "weight_orig")
             \* `weight` is no longer a Parameter: register_parameter refuses it
             THEN {[m |-> m, raised |-> "TypeError", memo |-> memo]}
             ELSE {IF r.raised # ""
                   \* the except clause puts the parameter back under `weight`
                   THEN [m |-> m, raised |-> r.raised, memo |-> r.memo]
                   ELSE [m |-> [m EXCEPT !.weight_orig = m.weight,
                                          !.weight_mask = r.mask,
                                          !.weight = Mul(m.weight, r.mask),
                                          !.hook = TRUE],
                         raised |-> "", memo |-> r.memo] :
                     r \in L1ComputeMask(a, m.weight, Ones(Len(m.weight)), memo)}
        ELSE {IF r.raised # ""
              THEN [m |-> unhooked, raised |-> r.raised, memo |-> r.memo]
              ELSE [m |-> [m EXCEPT !.weight_mask = r.mask,
                                     !.weight = Mul(m.weight_orig, r.mask),
                                     !.hook = TRUE],
                    raised |-> "", memo |-> r.memo] :
                r \in ContainerComputeMask(a, m.weight, m.weight_mask, memo)}

\* apply_unstructured_pruning(model, amount) from layer i on: the set of
\* outcomes [mods: the modules afterwards, raised, memo].  The first
\* exception ends the loop.
RECURSIVE PruneFrom(_, _, _, _)
PruneFrom(mods, a, i, memo) ==
    IF i > Len(LayerNames) THEN {[mods |-> mods, raised |-> "", memo |-> memo]}
    ELSE LET name == LayerNames[i]
         IN  IF Kind(name) \notin {"Conv2d", "Linear"}
             THEN PruneFrom(mods, a, i + 1, memo)
             ELSE UNION {
                    IF r.raised # ""
                    THEN {[mods |-> [mods EXCEPT ![name] = r.m],
                           raised |-> r.raised, memo |-> r.memo]}
                    ELSE PruneFrom([mods EXCEPT ![name] = r.m], a, i + 1,
                                   r.memo) :
                      r \in L1Unstructured(mods[name], a, memo)}

apply_unstructured_pruning(mods, a) == PruneFrom(mods, a, 1, topk)

\* Mutant: every module with a weight is counted, by its zero weights.
RECURSIVE CountWeightsFrom(_, _)
CountWeightsFrom(mods, i) ==
    IF i > Len(LayerNames) THEN <<0, 0>>
    ELSE LET module == mods[LayerNames[i]]
             rest == CountWeightsFrom(mods, i + 1)
         IN  <<Len(module.weight) + rest[1],
               CountZeros(module.weight) + rest[2]>>

CountAllWeights(mods) == CountWeightsFrom(mods, 1)

\* count_pruned_weights(model): <<total, zero>>
RECURSIVE CountFrom(_, _)
CountFrom(mods, i) ==
    IF i > Len(LayerNames) THEN <<0, 0>>
    ELSE LET module == mods[LayerNames[i]]
             rest == CountFrom(mods, i + 1)
         IN  IF HasAttr(module, "weight_mask") /\ HasAttr(module, "weight_orig")
             THEN <<Len(module.weight_mask) + rest[1],
                    CountZeros(module.weight_mask) + rest[2]>>
             ELSE rest

count_pruned_weights(mods) == CountFrom(mods, 1)

----------------------------------------------------------------------------
(* Model objects.                                                          *)

Weights == {F32(w) : w \in -1..MaxW}
Classes == 1..NumClasses
\* A gradient element: -1.0, 0.0, 1.0 or inf (a loss that has overflowed).
GradVals == {F32(-1), 0, F32(1), Infinity}

NoOptimizer ==
    [obj |-> 0, param |-> "", fused |-> FALSE, buf_w |-> <<>>, buf_b |-> <<>>,
     grad_w |-> <<>>, grad_b |-> <<>>]

\* The state dicts the free-call specification is explored with: every
\* conv1 weight tensor over Weights, fc.weight being the first elements of
\* conv1.weight with the sign changed.
Checkpoints ==
    {[conv1 |-> w, fc |-> [i \in 1..NumelFc |-> -w[1 + ((i - 1) % NumelConv)]]] :
        w \in [1..NumelConv -> Weights]}

\* The checkpoint files the notebook run is explored with: distinct
\* magnitudes in conv1, and fc with and without a tie.
NotebookCheckpoints ==
    {[conv1 |-> [i \in 1..NumelConv |-> F32(IF i = 2 THEN -1 ELSE i - 1)],
      fc |-> [i \in 1..NumelFc |-> F32(IF i = 1 THEN 1 ELSE v)]] :
        v \in {1, -2}}

\* The label column of the test set.
TestLabels == [i \in 1..TestSize |-> 1 + (i % NumClasses)]

NoAmount == [kind |-> "none", num |-> 0, den |-> 1]
NoCalls == [n |-> 0, last |-> NoAmount, same |-> FALSE]
RecordCall(c, a) == [n |-> c.n + 1, last |-> a, same |-> (a = c.last)]

\* models.resnet18(weights=None); model.fc = nn.Linear(...);
\* model.load_state_dict(torch.load(...)): a new module tree in training
\* mode, holding the checkpoint's values.
Module(w, b) ==
    [weight |-> w, weight_orig |-> <<>>, weight_mask |-> <<>>, bias |-> b,
     hook |-> FALSE, num_batches_tracked |-> 0]

NewModel(c) ==
    [training |-> TRUE,
     mods |-> [l \in Layers |->
                CASE l = "conv1" -> Module(c.conv1, <<>>)
                  [] l = "bn1"   -> Module(<<F32(1)>>, <<0>>)
                  [] l = "relu"  -> Module(<<>>, <<>>)
                  [] l = "fc"    -> Module(c.fc, <<0>>)]]

\* Objects no notebook name refers to any more are collected.
Live(heap, names) == [id \in (DOMAIN heap) \cap names |-> heap[id]]

FreshId == IF DOMAIN objs = {} THEN 1
           ELSE 1 + CHOOSE id \in DOMAIN objs : \A o \in DOMAIN objs : o <= id

\* Mutant: no forward pre-hook runs, the forward pass uses `weight` as it is.
ForwardWithoutHooks(obj) ==
    [obj EXCEPT !.mods =
        [l \in Layers |->
            IF Kind(l) = "BatchNorm2d" /\ obj.training
            THEN [obj.mods[l] EXCEPT !.num_batches_tracked = @ + 1]
            ELSE obj.mods[l]]]

\* One forward pass model(x): each pruning forward pre-hook recomputes
\* `weight` from weight_orig and weight_mask; in training mode the batch
\* norm layer counts the batch.
Forward(obj) ==
    [obj EXCEPT !.mods =
        [l \in Layers |->
            LET m == obj.mods[l]
                hooked == IF m.hook
                          THEN [m EXCEPT !.weight =
                                    Mul(m.weight_orig, m.weight_mask)]
                          ELSE m
            IN  IF Kind(l) = "BatchNorm2d" /\ obj.training
                THEN [hooked EXCEPT !.num_batches_tracked = @ + 1]
                ELSE hooked]]

\* Mutant: the gradient reaches weight_orig without passing the mask.
UnmaskedGrad(m, g) == g

\* The gradient that loss.backward() leaves on the weight parameter, given
\* the gradient g of the loss in the weight the forward pass used: through
\* weight = weight_orig * weight_mask it is g * mask.
WeightGrad(m, g) == IF HasAttr(m, "weight_mask") THEN Mul(g, m.weight_mask) ELSE g

\* SGD with momentum, no dampening, no weight decay: the momentum buffer
\* of a parameter (<<>> before its first step) after one more gradient:
\* buf = grad on the first step, buf.mul_(momentum).add_(grad, alpha=1)
\* after it.
MomentumBuffer(buf, grad) ==
    IF buf = <<>> THEN grad
    ELSE [i \in 1..Len(grad) |-> FAdd(FMul(buf[i], Momentum), grad[i])]

\* param.add_(buf, alpha=-lr): param + alpha * buf, which the add kernel
\* computes as a fused multiply-add (one rounding) or as a product and a
\* sum (two roundings), depending on the build and the CPU.
SGDUpdate(p, buf, fused) ==
    [i \in 1..Len(p) |->
        IF fused THEN Fma(-LearningRate, buf[i], p[i])
        ELSE FAdd(p[i], FMul(-LearningRate, buf[i]))]

\* torch.optim.SGD(model_pruned.fc.parameters(), lr=1e-3, momentum=0.9):
\* the optimizer holds the Parameters of fc of that object: bias, and
\* weight_orig once the layer is pruned (weight before).  fused: whether
\* the add kernel its step() runs is a fused multiply-add.
NewSGD(id, fused) ==
    [obj |-> id, fused |-> fused,
     param |-> IF HasAttr(objs[id].mods["fc"], "weight_orig")
               THEN "weight_orig" ELSE "weight",
     buf_w |-> <<>>, buf_b |-> <<>>,
     grad_w |-> <<>>, grad_b |-> <<>>]

\* The batches of a loader over n examples: their number and the size of
\* batch k (drop_last=False).
NumBatches(n) == (n + BatchSize - 1) \div BatchSize
TrainBatches == NumBatches(TrainSize)   \* len(train_loader)
BatchLen(n, k) == IF k * BatchSize <= n THEN BatchSize ELSE n - (k - 1) * BatchSize

----------------------------------------------------------------------------
(* The notebook, cell by cell.                                             *)

Cells == <<"load", "eval1", "reload", "prune", "attrs", "eval2",
           "finetune", "count", "eval3", "done">>

NextCell(c) == Cells[1 + CHOOSE i \in 1..Len(Cells) : Cells[i] = c]

EvalCells == {"eval1", "eval2", "eval3"}

\* The object a cell's evaluation loop runs: `model` in the first,
\* `model_pruned` in the two after pruning.
EvalTarget(c) == IF c = "eval1" THEN model ELSE model_pruned

\* Cells afe89bd6 and dd62c1ac: model = models.resnet18(...); load_state_dict
LoadModel ==
    /\ pc \in {"load", "reload"}
    /\ LET id == FreshId
       IN  /\ model' = id
           /\ objs' = Live(objs @@ (id :> NewModel(ckpt)),
                           {id, model_pruned, optimizer.obj})
    /\ pc' = NextCell(pc)
    /\ outcome' = "ok"
    /\ UNCHANGED <<model_pruned, optimizer, batch, epoch, correct, total,
                   zero, ckpt, test_y, misses, calls, before, first_count, topk>>

\* model.eval(); correct = total = 0
EvalBegin ==
    /\ pc \in EvalCells
    /\ batch = -1
    /\ objs' = [objs EXCEPT ![EvalTarget(pc)].training = FALSE]
    /\ correct' = 0
    /\ total' = 0
    /\ batch' = 0
    /\ misses' = 0
    /\ UNCHANGED <<model, model_pruned, optimizer, pc, epoch, zero, ckpt,
                   test_y, outcome, calls, before, first_count, topk>>

\* Mutant: total counts batches instead of examples.
EvalBatchCountingBatches ==
    /\ pc \in EvalCells
    /\ batch >= 0
    /\ batch < NumBatches(TestSize)
    /\ LET size == BatchLen(TestSize, batch + 1)
           off == batch * BatchSize
       IN  \E r \in {<<Cardinality({i \in 1..size : preds[i] = test_y[off + i]}),
                      Cardinality({i \in 1..size : preds[i] # test_y[off + i]})>> :
                        preds \in [1..size -> Classes]} :
              /\ correct' = correct + r[1]
              /\ total' = total + 1
              /\ misses' = misses + r[2]
    /\ objs' = [objs EXCEPT ![EvalTarget(pc)] = Forward(@)]
    /\ batch' = batch + 1
    /\ UNCHANGED <<model, model_pruned, optimizer, pc, epoch, zero, ckpt,
                   test_y, outcome, calls, before, first_count, topk>>

\* One iteration of `for x, y in test_loader`: preds = model(x).argmax(dim=1);
\* correct += (preds == y).sum().item(); total += y.size(0)
EvalBatch ==
    /\ pc \in EvalCells
    /\ batch >= 0
    /\ batch < NumBatches(TestSize)
    /\ LET size == BatchLen(TestSize, batch + 1)
           off == batch * BatchSize
       IN  \E r \in {<<Cardinality({i \in 1..size : preds[i] = test_y[off + i]}),
                      Cardinality({i \in 1..size : preds[i] # test_y[off + i]})>> :
                        preds \in [1..size -> Classes]} :
              /\ correct' = correct + r[1]
              /\ total' = total + size
              /\ misses' = misses + r[2]
    /\ objs' = [objs EXCEPT ![EvalTarget(pc)] = Forward(@)]
    /\ batch' = batch + 1
    /\ UNCHANGED <<model, model_pruned, optimizer, pc, epoch, zero, ckpt,
                   test_y, outcome, calls, before, first_count, topk>>

\* print(f"Accuracy on STL10 test set: {correct / total * 100:.2f}%"):
\* with total = 0 the division raises and the notebook stops at this cell.
EvalEnd ==
    /\ pc \in EvalCells
    /\ batch = NumBatches(TestSize)
    /\ pc' = IF total = 0 THEN "stopped" ELSE NextCell(pc)
    /\ batch' = -1
    /\ outcome' = IF total = 0 THEN "ZeroDivisionError" ELSE "ok"
    /\ UNCHANGED <<objs, model, model_pruned, optimizer, epoch, correct,
                   total, zero, ckpt, test_y, misses, calls, before,
                   first_count, topk>>

\* Mutant: the transform prunes and returns a copy, `model` stays as loaded.
PruneCellOnCopy ==
    /\ pc = "prune"
    /\ \E r \in apply_unstructured_pruning(objs[model].mods, Half) :
          /\ r.raised = ""
          /\ topk' = r.memo
          /\ objs' = objs @@ (FreshId :> [objs[model] EXCEPT !.mods = r.mods])
          /\ total' = count_pruned_weights(r.mods)[1]
          /\ zero' = count_pruned_weights(r.mods)[2]
          /\ first_count' = count_pruned_weights(r.mods)
    /\ model_pruned' = FreshId
    /\ outcome' = "ok"
    /\ pc' = NextCell(pc)
    /\ calls' = RecordCall(calls, Half)
    /\ before' = objs[model].mods
    /\ UNCHANGED <<model, optimizer, batch, epoch, correct, ckpt, test_y, misses>>

\* Cell 24d3d4a4: model_pruned = apply_unstructured_pruning(model, amount=0.5)
\* total, zero = count_pruned_weights(model_pruned)
PruneCell ==
    /\ pc = "prune"
    /\ \E r \in apply_unstructured_pruning(objs[model].mods, Half) :
          /\ objs' = [objs EXCEPT ![model].mods = r.mods]
          /\ topk' = r.memo
          /\ outcome' = IF r.raised = "" THEN "ok" ELSE r.raised
          /\ IF r.raised = ""
             THEN /\ model_pruned' = model
                  /\ total' = count_pruned_weights(r.mods)[1]
                  /\ zero' = count_pruned_weights(r.mods)[2]
                  /\ first_count' = count_pruned_weights(r.mods)
                  /\ pc' = NextCell(pc)
             ELSE /\ pc' = "stopped"
                  /\ UNCHANGED <<model_pruned, total, zero, first_count>>
    /\ calls' = RecordCall(calls, Half)
    /\ before' = objs[model].mods
    /\ UNCHANGED <<model, optimizer, batch, epoch, correct, ckpt, test_y, misses>>

\* Cell 61d19b6b: print(hasattr(model_pruned.layer1[0].conv1, "weight_orig")) ...
PrintAttrs ==
    /\ pc = "attrs"
    /\ pc' = NextCell(pc)
    /\ UNCHANGED <<objs, model, model_pruned, optimizer, batch, epoch,
                   correct, total, zero, ckpt, test_y, misses, outcome, calls,
                   before, first_count, topk>>

\* Mutant: fine-tuning starts from a freshly loaded, unpruned model.
FineTuneOnReload ==
    /\ pc = "finetune"
    /\ batch = -1
    /\ model' = FreshId
    /\ model_pruned' = FreshId
    /\ objs' = (FreshId :> NewModel(ckpt))
    /\ \E fused \in BOOLEAN :
          optimizer' = [obj |-> FreshId, param |-> "weight", fused |-> fused,
                        buf_w |-> <<>>, buf_b |-> <<>>,
                        grad_w |-> <<>>, grad_b |-> <<>>]
    /\ batch' = 0
    /\ epoch' = 0
    /\ UNCHANGED <<pc, correct, total, zero, ckpt, test_y, misses, outcome,
                   calls, before, first_count, topk>>

\* criterion = ...; optimizer = torch.optim.SGD(model_pruned.fc.parameters(),
\* lr=1e-3, momentum=0.9); model.train()
FineTuneBegin ==
    /\ pc = "finetune"
    /\ batch = -1
    /\ \E fused \in BOOLEAN : optimizer' = NewSGD(model_pruned, fused)
    /\ objs' = [objs EXCEPT ![model].training = TRUE]
    /\ batch' = 0
    /\ epoch' = 0
    /\ UNCHANGED <<model, model_pruned, pc, correct, total, zero, ckpt,
                   test_y, misses, outcome, calls, before, first_count, topk>>

\* One iteration of `for x, y in train_loader`: optimizer.zero_grad();
\* loss = criterion(model_pruned(x), y); loss.backward(); optimizer.step().
\* The gradients the batch produces are inputs; .grad of the optimizer's
\* parameters keeps them until the next zero_grad().  A run is explored
\* for the gradient sequences that are free in its first FreeGradSteps
\* steps and constant from then on.
TrainBatch ==
    /\ pc = "finetune"
    /\ batch >= 0
    /\ epoch < Epochs
    /\ batch < TrainBatches
    /\ \E grad_w \in {WeightGrad(Forward(objs[model_pruned]).mods["fc"], g) :
                            g \in [1..NumelFc -> GradVals]},
          gb \in [1..1 -> GradVals] :
          LET fwd == Forward(objs[model_pruned])
              target == IF optimizer.obj = model_pruned
                        THEN fwd ELSE objs[optimizer.obj]
              fc == target.mods["fc"]
              steps == epoch * TrainBatches + batch
              buf_w == MomentumBuffer(optimizer.buf_w, grad_w)
              buf_b == MomentumBuffer(optimizer.buf_b, gb)
              stepped == [fc EXCEPT
                            ![optimizer.param] = SGDUpdate(@, buf_w, optimizer.fused),
                            !.bias = SGDUpdate(@, buf_b, optimizer.fused)]
          IN  /\ \/ steps < FreeGradSteps
                 \/ grad_w = optimizer.grad_w /\ gb = optimizer.grad_b
              /\ objs' = [[objs EXCEPT ![model_pruned] = fwd]
                            EXCEPT ![optimizer.obj].mods["fc"] = stepped]
              /\ optimizer' = [optimizer EXCEPT !.buf_w = buf_w,
                                                !.buf_b = buf_b,
                                                !.grad_w = grad_w,
                                                !.grad_b = gb]
    /\ batch' = batch + 1
    /\ UNCHANGED <<model, model_pruned, pc, epoch, correct, total, zero,
                   ckpt, test_y, misses, outcome, calls, before, first_count, topk>>

\* print(f"Epoch {epoch+1}: Loss = {total_loss / len(train_loader):.4f}"),
\* then the next epoch or the next cell.  With an empty train_loader the
\* division raises in the first epoch and the notebook stops at this cell.
EpochEnd ==
    /\ pc = "finetune"
    /\ epoch < Epochs
    /\ batch = TrainBatches
    /\ IF TrainBatches = 0
       THEN /\ outcome' = "ZeroDivisionError"
            /\ pc' = "stopped"
            /\ batch' = -1
            /\ epoch' = epoch
       ELSE /\ outcome' = outcome
            /\ epoch' = epoch + 1
            /\ IF epoch + 1 = Epochs
               THEN pc' = NextCell(pc) /\ batch' = -1
               ELSE pc' = pc /\ batch' = 0
    /\ UNCHANGED <<objs, model, model_pruned, optimizer, correct, total,
                   zero, ckpt, test_y, misses, calls, before, first_count,
                   topk>>

\* Cell eeb068c4: total, zero = count_pruned_weights(model_pruned)
CountCell ==
    /\ pc = "count"
    /\ total' = count_pruned_weights(objs[model_pruned].mods)[1]
    /\ zero' = count_pruned_weights(objs[model_pruned].mods)[2]
    /\ pc' = NextCell(pc)
    /\ UNCHANGED <<objs, model, model_pruned, optimizer, batch, epoch,
                   correct, ckpt, test_y, misses, outcome, calls, before,
                   first_count, topk>>

Init ==
    /\ objs = << >>
    /\ model = 0
    /\ model_pruned = 0
    /\ optimizer = NoOptimizer
    /\ pc = "load"
    /\ batch = -1
    /\ epoch = 0
    /\ correct = 0
    /\ total = 0
    /\ zero = 0
    /\ ckpt \in NotebookCheckpoints
    /\ test_y = TestLabels
    /\ misses = 0
    /\ outcome = "ok"
    /\ calls = NoCalls
    /\ before = NewModel(ckpt).mods
    /\ first_count = <<>>
    /\ topk = {}

Next ==
    \/ LoadModel
    \/ EvalBegin
    \/ EvalBatch
    \/ EvalEnd
    \/ PruneCell
    \/ PrintAttrs
    \/ FineTuneBegin
    \/ TrainBatch
    \/ EpochEnd
    \/ CountCell

Spec == Init /\ [][Next]_vars

----------------------------------------------------------------------------
(* Free calls: apply_unstructured_pruning with any amount, any number of   *)
(* times (up to MaxCalls), on one loaded model, and then the accounting.   *)
(* count_pruned_weights only reads the model, so the run is followed up to *)
(* the accounting and not beyond it.                                       *)

\* model_pruned = apply_unstructured_pruning(model, amount=a)
CallPrune(a) ==
    /\ pc = "called"
    /\ calls.n < MaxCalls
    /\ \E r \in apply_unstructured_pruning(objs[model].mods, a) :
          /\ objs' = [objs EXCEPT ![model].mods = r.mods]
          /\ topk' = r.memo
          /\ outcome' = IF r.raised = "" THEN "ok" ELSE r.raised
          /\ model_pruned' = IF r.raised = "" THEN model ELSE model_pruned
    /\ calls' = RecordCall(calls, a)
    /\ before' = objs[model].mods
    /\ pc' = "called"
    /\ UNCHANGED <<model, optimizer, batch, epoch, correct, total, zero,
                   ckpt, test_y, misses, first_count>>

\* total, zero = count_pruned_weights(model)
CallCount ==
    /\ pc = "called"
    /\ total' = count_pruned_weights(objs[model].mods)[1]
    /\ zero' = count_pruned_weights(objs[model].mods)[2]
    /\ pc' = "counted"
    /\ UNCHANGED <<objs, model, model_pruned, optimizer, batch, epoch,
                   correct, ckpt, test_y, misses, outcome, calls, before,
                   first_count, topk>>

InitCalls ==
    /\ ckpt \in Checkpoints
    /\ objs = (1 :> NewModel(ckpt))
    /\ model = 1
    /\ model_pruned = 0
    /\ optimizer = NoOptimizer
    /\ pc = "called"
    /\ batch = -1
    /\ epoch = 0
    /\ correct = 0
    /\ total = 0
    /\ zero = 0
    /\ test_y = TestLabels
    /\ misses = 0
    /\ outcome = "ok"
    /\ calls = NoCalls
    /\ before = NewModel(ckpt).mods
    /\ first_count = <<>>
    /\ topk = {}

NextCalls ==
    \/ \E a \in Amounts : CallPrune(a)
    \/ CallCount

SpecCalls == InitCalls /\ [][NextCalls]_vars

----------------------------------------------------------------------------
(* Properties of the pruning transform and of the accounting, checked      *)
(* under SpecCalls.                                                        *)

PrunableLayers == {l \in Layers : Kind(l) \in {"Conv2d", "Linear"}}

Mods == objs[model].mods
Numel(l) == Len(ckpt[l])
Masked(mods, l) == HasAttr(mods[l], "weight_mask")
Zeros(mods, l) == CountZeros(mods[l].weight_mask)
ZeroSet(mods, l) ==
    {i \in 1..Len(mods[l].weight_mask) : mods[l].weight_mask[i] = 0}

\* z is the integer nearest to n/d, the even one of the two when n/d lies
\* half way between them.
NearestHalfEven(z, n, d) ==
    /\ 2 * Abs(d * z - n) <= d
    /\ 2 * Abs(d * z - n) = d => z % 2 = 0

FirstCall == calls.n = 1
FloatInRange(a) == a.kind = "float" /\ InUnitInterval(a)

\* C1 as stated: after the first call with an amount in [0,1], every Conv2d
\* and Linear layer has a mask with exactly floor(amount * numel) zeros.
C1_FloorCount ==
    (FirstCall /\ InUnitInterval(calls.last)) =>
        /\ outcome = "ok"
        /\ \A l \in PrunableLayers :
              /\ Masked(Mods, l)
              /\ Zeros(Mods, l) = (calls.last.num * Numel(l)) \div calls.last.den

\* C1 amended: after the first call with a float amount in [0,1], every
\* Conv2d and Linear layer has a mask with exactly round(amount * numel)
\* zeros, round being Python's round-half-to-even; 0.0 gives no zero and 1.0
\* gives only zeros.  An int amount is a number of weights, not a fraction:
\* when the call succeeds each layer has exactly `amount` zeros.
C1_RoundCount ==
    /\ (FirstCall /\ FloatInRange(calls.last)) =>
          /\ outcome = "ok"
          /\ \A l \in PrunableLayers :
                /\ Masked(Mods, l)
                /\ Len(Mods[l].weight_mask) = Numel(l)
                /\ NearestHalfEven(Zeros(Mods, l), calls.last.num * Numel(l),
                                   calls.last.den)
                /\ calls.last.num = 0 => Zeros(Mods, l) = 0
                /\ calls.last.num = calls.last.den => Zeros(Mods, l) = Numel(l)
    /\ (FirstCall /\ calls.last.kind = "int" /\ outcome = "ok") =>
          \A l \in PrunableLayers :
                Masked(Mods, l) /\ Zeros(Mods, l) = calls.last.num

\* A first call with a float amount whose product with numel is rounded up.
C1_Witness ==
    /\ pc = "called"
    /\ FirstCall /\ FloatInRange(calls.last) /\ outcome = "ok"
    /\ \E l \in PrunableLayers :
          Zeros(Mods, l) > (calls.last.num * Numel(l)) \div calls.last.den
    /\ \E l \in PrunableLayers :
          /\ 2 * (calls.last.num * Numel(l) % calls.last.den) = calls.last.den
          /\ Zeros(Mods, l) = (calls.last.num * Numel(l)) \div calls.last.den

\* The mask layer l had before the last call.
MaskBefore(l) ==
    IF Masked(before, l) THEN before[l].weight_mask ELSE Ones(Numel(l))

\* The ranking the last call asked for in layer l: the magnitudes of the
\* weights its mask had left, how many of them to take, and the ones taken
\* (as positions among those left).
LastRanking(l) ==
    LET slc == Slice(MaskBefore(l), 1)
    IN  [t |-> [j \in 1..Len(slc) |-> Abs(ckpt[l][slc[j]])],
         k |-> Zeros(Mods, l) - CountZeros(MaskBefore(l)),
         idx |-> {j \in 1..Len(slc) : Mods[l].weight_mask[slc[j]] = 0}]

SecondCallSameAmount ==
    /\ calls.n = 2
    /\ calls.same
    /\ \A l \in PrunableLayers : Masked(before, l) /\ before[l].hook

\* C5 as stated: a second call with the same amount on the masked model
\* leaves every layer with the mask the first call gave it.
C5_SameMask ==
    SecondCallSameAmount =>
        \A l \in PrunableLayers : Mods[l].weight_mask = before[l].weight_mask

\* C5 amended: a second call with the same float amount in [0,1] prunes
\* again among the weights the first mask kept: in every layer the zeros of
\* the first mask stay zeros, and round(amount * (numel - z1)) of the
\* numel - z1 kept entries become zeros as well, z1 being the number of
\* zeros of the first mask; the stored weights are not changed.  The mask
\* is the same only when that number is 0.
C5_PrunesRemaining ==
    (SecondCallSameAmount /\ FloatInRange(calls.last)) =>
        /\ outcome = "ok"
        /\ \A l \in PrunableLayers :
              /\ ZeroSet(before, l) \subseteq ZeroSet(Mods, l)
              /\ NearestHalfEven(Zeros(Mods, l) - Zeros(before, l),
                                 calls.last.num * (Numel(l) - Zeros(before, l)),
                                 calls.last.den)
              /\ Mods[l].weight_orig = before[l].weight_orig
              /\ Mods[l].weight = Mul(Mods[l].weight_orig, Mods[l].weight_mask)

\* A second call with the same amount that zeroes further entries.
C5_Witness ==
    /\ SecondCallSameAmount /\ FloatInRange(calls.last) /\ outcome = "ok"
    /\ \E l \in PrunableLayers :
          /\ Zeros(before, l) > 0
          /\ Zeros(Mods, l) > Zeros(before, l)
          /\ Mods[l].weight_mask # before[l].weight_mask

MaskNumel(l) == IF Masked(Mods, l) /\ HasAttr(Mods[l], "weight_orig")
                THEN Len(Mods[l].weight_mask) ELSE 0
MaskZeros(l) == IF Masked(Mods, l) /\ HasAttr(Mods[l], "weight_orig")
                THEN Zeros(Mods, l) ELSE 0

\* C6: count_pruned_weights returns the mask sizes and the mask zeros summed
\* over the layers that carry a mask; bn1 and relu carry none and add 0 to
\* both; after a first successful call with a float amount the result is
\* the sum of the expected counts of conv1 and fc.
C6_Accounting ==
    pc = "counted" =>
        /\ total = MaskNumel("conv1") + MaskNumel("fc")
        /\ zero = MaskZeros("conv1") + MaskZeros("fc")
        /\ \A l \in Layers \ PrunableLayers :
              ~Masked(Mods, l) /\ MaskNumel(l) = 0 /\ MaskZeros(l) = 0
        /\ (FirstCall /\ FloatInRange(calls.last)) =>
              /\ total = NumelConv + NumelFc
              /\ zero = Round(calls.last.num * NumelConv, calls.last.den)
                        + Round(calls.last.num * NumelFc, calls.last.den)

\* The accounting after a first call that zeroed some but not all weights,
\* a kept weight being 0 itself.
C6_Witness ==
    /\ pc = "counted"
    /\ FirstCall /\ FloatInRange(calls.last)
    /\ zero > 0 /\ zero < total
    /\ \E i \in 1..NumelConv :
          Mods["conv1"].weight_mask[i] = 1 /\ ckpt.conv1[i] = 0

\* C8 as stated: a first call with an amount outside [0,1] ends in an error
\* and leaves no layer with a mask.
C8_FailsFast ==
    (FirstCall /\ ~InUnitInterval(calls.last)) =>
        /\ outcome # "ok"
        /\ \A l \in Layers : ~Masked(Mods, l)

FirstSmallLayer(n) ==
    CHOOSE i \in 1..Len(LayerNames) :
        /\ LayerNames[i] \in PrunableLayers /\ Numel(LayerNames[i]) < n
        /\ \A j \in 1..(i - 1) :
              LayerNames[j] \in PrunableLayers => Numel(LayerNames[j]) >= n

\* C8 amended: a first call with a float amount outside [0,1], or with a
\* negative amount, raises ValueError before any layer is touched: no layer
\* has a mask and the model is as it was.  An int amount of 2 or more is
\* not an error of its own: it is a number of weights to zero in each
\* layer, and the call raises ValueError only at the first Conv2d or
\* Linear layer with fewer weights, the layers before it staying masked.
C8_FloatFailsFast ==
    /\ (FirstCall /\ ~InUnitInterval(calls.last)
          /\ (calls.last.kind = "float" \/ calls.last.num < 0)) =>
          /\ outcome = "ValueError"
          /\ model_pruned = 0
          /\ Mods = before
          /\ \A l \in Layers : ~Masked(Mods, l)
    /\ (FirstCall /\ calls.last.kind = "int" /\ calls.last.num >= 2) =>
          IF \A l \in PrunableLayers : Numel(l) >= calls.last.num
          THEN /\ outcome = "ok"
               /\ \A l \in PrunableLayers : Zeros(Mods, l) = calls.last.num
          ELSE /\ outcome = "ValueError"
               /\ \A i \in 1..Len(LayerNames) :
                     LayerNames[i] \in PrunableLayers =>
                        (Masked(Mods, LayerNames[i])
                            <=> i < FirstSmallLayer(calls.last.num))

\* A first call with the float amount 1.25 has raised ValueError.
C8_Witness ==
    /\ FirstCall
    /\ calls.last.kind = "float" /\ calls.last.num > calls.last.den
    /\ outcome = "ValueError"
    /\ \A l \in Layers : ~Masked(Mods, l)

----------------------------------------------------------------------------
(* Properties of the notebook run, checked under Spec.                     *)

Pruned == objs[model_pruned].mods

ForwardOfEval == pc \in EvalCells /\ batch >= 0 /\ batch' = batch + 1
TrainStep == pc = "finetune" /\ batch >= 0 /\ batch' = batch + 1

IsProduct(m) == m.weight = Mul(m.weight_orig, m.weight_mask)

Finite(x) == ~IsInf(x) /\ ~IsNaN(x)

\* C3 as stated: in every state after the pruning step the weight of every
\* pruned layer is the product of the stored weight and the mask, 0 where
\* the mask is 0 and the stored weight where it is 1.
C3_AlwaysProduct ==
    model_pruned # 0 =>
        \A l \in PrunableLayers :
            /\ Masked(Pruned, l)
            /\ IsProduct(Pruned[l])
            /\ \A i \in 1..Numel(l) :
                  Pruned[l].weight[i] =
                      IF Pruned[l].weight_mask[i] = 0 THEN 0
                      ELSE Pruned[l].weight_orig[i]

\* C3 amended: the pruning step keeps the loaded weight as weight_orig.
\* The weight every forward pass uses is the float32 product of the mask
\* and the weight stored when that pass runs: the stored weight where the
\* mask is 1, and where the mask is 0 it is 0 for a finite stored weight
\* and NaN for an infinite or NaN one.  conv1, which no optimizer step
\* changes, is that product in every state.  After an optimizer step and
\* until the next forward pass the weight of fc is still the product taken
\* of the weight stored before the step.
C3_ProductAtForward ==
    [][ /\ (pc = "prune" /\ pc' = "attrs") =>
              \A l \in PrunableLayers :
                  /\ Pruned'[l].weight_orig = ckpt[l]
                  /\ Pruned'[l].weight_orig = objs[model].mods[l].weight
        /\ model_pruned' # 0 =>
              /\ \A l \in PrunableLayers :
                    /\ Masked(Pruned', l)
                    /\ \A i \in 1..Numel(l) :
                          Pruned'[l].weight_mask[i] = 0 =>
                              Pruned'[l].weight[i] \in {0, NaN}
              /\ IsProduct(Pruned'["conv1"])
              /\ ForwardOfEval =>
                    \A l \in PrunableLayers :
                        /\ IsProduct(Pruned'[l])
                        /\ \A i \in 1..Numel(l) :
                              Pruned'[l].weight[i] =
                                  IF Pruned'[l].weight_mask[i] = 1
                                  THEN Pruned'[l].weight_orig[i]
                                  ELSE IF Finite(Pruned'[l].weight_orig[i])
                                  THEN 0 ELSE NaN
              /\ TrainStep =>
                    \A l \in PrunableLayers :
                        /\ Pruned'[l].weight =
                              Mul(Pruned[l].weight_orig, Pruned'[l].weight_mask)
                        /\ \A i \in 1..Numel(l) :
                              Pruned'[l].weight[i] =
                                  IF Pruned'[l].weight_mask[i] = 1
                                  THEN Pruned[l].weight_orig[i]
                                  ELSE IF Finite(Pruned[l].weight_orig[i])
                                  THEN 0 ELSE NaN
      ]_vars

\* A forward pass of the last evaluation, after fine-tuning: fc holds a
\* non-zero stored weight under a zero of the mask, and a trained one.
C3_Witness ==
    /\ pc = "eval3" /\ batch >= 1
    /\ IsProduct(Pruned["fc"])
    /\ \E i \in 1..NumelFc :
          Pruned["fc"].weight_mask[i] = 0 /\ Pruned["fc"].weight_orig[i] # 0
    /\ \E i \in 1..NumelFc :
          /\ Pruned["fc"].weight_mask[i] = 1
          /\ Pruned["fc"].weight_orig[i] # ckpt.fc[i]

MasksOf(mods) == [l \in Layers |-> <<mods[l].weight_mask, mods[l].hook>>]

\* C4: once the pruning step has run, no step changes or removes a mask or
\* rebinds model_pruned, and the count made after fine-tuning returns the
\* total and zero of the count made right after pruning.
C4_MasksSurvive ==
    [][ /\ model_pruned # 0 =>
              /\ model_pruned' = model_pruned
              /\ MasksOf(Pruned') = MasksOf(Pruned)
        /\ (pc = "count" /\ pc' # pc) =>
              /\ <<total', zero'>> = first_count
              /\ first_count = count_pruned_weights(Pruned)
      ]_vars

\* The count after the 15 epochs, fc having been trained.
C4_Witness ==
    /\ pc = "eval3" /\ batch = -1
    /\ epoch = Epochs
    /\ <<total, zero>> = first_count
    /\ zero > 0 /\ zero < total
    /\ Pruned["fc"].weight_orig # ckpt.fc

\* C7: after every batch of an evaluation loop total is the number of
\* examples visited, correct is the number of them predicted right (the
\* others being the misses), 0 <= correct <= total, and at the end of the
\* loop total is the size of the test set, so correct / total is the exact
\* fraction of right predictions and lies in [0,1].
C7_Accuracy ==
    (pc \in EvalCells /\ batch >= 0) =>
        /\ batch <= NumBatches(TestSize)
        /\ total = (IF batch * BatchSize <= TestSize
                    THEN batch * BatchSize ELSE TestSize)
        /\ correct + misses = total
        /\ 0 <= correct /\ correct <= total
        /\ batch = NumBatches(TestSize) => (total = TestSize /\ total > 0)

\* The end of an evaluation of 4 examples with 3 right: accuracy 0.75.
C7_Witness ==
    /\ pc = "eval2" /\ batch = NumBatches(TestSize)
    /\ total = 4 /\ correct = 3 /\ misses = 1
    /\ 4 * correct = 3 * total

\* C9 as stated: a fine-tuning step changes, in the model, nothing but fc:
\* conv1, bn1 and relu keep their stored weights, biases and masks, and in
\* fc the mask stays and the stored weight stays wherever the mask is 0.
C9_OnlyClassifier ==
    [][ TrainStep =>
          /\ \A l \in Layers \ {"fc"} :
                /\ Pruned'[l].weight_orig = Pruned[l].weight_orig
                /\ Pruned'[l].weight_mask = Pruned[l].weight_mask
                /\ Pruned'[l].weight = Pruned[l].weight
                /\ Pruned'[l].bias = Pruned[l].bias
          /\ Pruned'["fc"].weight_mask = Pruned["fc"].weight_mask
          /\ \A i \in 1..NumelFc :
                Pruned["fc"].weight_mask[i] = 0 =>
                    Pruned'["fc"].weight_orig[i] = Pruned["fc"].weight_orig[i]
      ]_vars

\* C9 amended: a fine-tuning step changes, in the model, nothing but fc,
\* and in fc the mask stays; wherever the mask is 0 the stored weight stays
\* as it was, unless the gradient that reaches it in this step is NaN (the
\* gradient of the loss there was not finite, and times the 0 of the mask
\* that is NaN): then the stored weight is NaN from this step on.
C9_MaskedWhileFinite ==
    [][ TrainStep =>
          /\ \A l \in Layers \ {"fc"} :
                /\ Pruned'[l].weight_orig = Pruned[l].weight_orig
                /\ Pruned'[l].weight_mask = Pruned[l].weight_mask
                /\ Pruned'[l].weight = Pruned[l].weight
                /\ Pruned'[l].bias = Pruned[l].bias
          /\ Pruned'["fc"].weight_mask = Pruned["fc"].weight_mask
          /\ \A i \in 1..NumelFc :
                Pruned["fc"].weight_mask[i] = 0 =>
                    IF IsNaN(optimizer'.grad_w[i])
                    THEN IsNaN(Pruned'["fc"].weight_orig[i])
                    ELSE Pruned'["fc"].weight_orig[i] =
                            Pruned["fc"].weight_orig[i]
      ]_vars

\* Fine-tuning under way, the momentum buffer carrying earlier gradients:
\* the bias and a kept weight of fc have moved, a non-zero weight under a
\* zero of the mask has not.
C9_Witness ==
    /\ pc = "finetune" /\ epoch >= 2
    /\ Pruned["fc"].bias # <<0>>
    /\ optimizer.buf_b # optimizer.grad_b
    /\ \E i \in 1..NumelFc :
          /\ Pruned["fc"].weight_mask[i] = 1
          /\ Pruned["fc"].weight_orig[i] # ckpt.fc[i]
    /\ \E i \in 1..NumelFc :
          /\ Pruned["fc"].weight_mask[i] = 0
          /\ Pruned["fc"].weight_orig[i] = ckpt.fc[i]
          /\ ckpt.fc[i] # 0

AfterPruning == {"attrs", "eval2", "finetune", "count", "eval3", "done"}

\* C10: the pruning step masks the object `model` names and binds
\* model_pruned to that same object; from then on no cell rebinds either
\* name, that object is the only model, and the accounting, model.train(),
\* the optimizer and the two later evaluations all act on it.
C10_OneObject ==
    [][ /\ (pc = "prune" /\ pc' # pc) =>
              /\ model' = model
              /\ model_pruned' = model
              /\ pc' = "attrs"
        /\ pc' \in AfterPruning =>
              /\ model_pruned' # 0
              /\ model_pruned' = model'
              /\ DOMAIN objs' = {model'}
              /\ optimizer'.obj \in {0, model'}
              /\ \A l \in PrunableLayers : Masked(Pruned', l)
              /\ pc' \in EvalCells => EvalTarget(pc)' = model'
              /\ (pc' = "finetune" /\ batch' >= 0) =>
                    (Pruned'["fc"].hook /\ objs'[model_pruned'].training
                        /\ optimizer'.obj = model')
        /\ model_pruned # 0 => (model' = model /\ model_pruned' = model_pruned)
      ]_vars

\* The last evaluation runs the object that was pruned and fine-tuned.
C10_Witness ==
    /\ pc = "eval3" /\ batch >= 1
    /\ model_pruned = model
    /\ optimizer.obj = model
    /\ ~objs[model].training
    /\ Pruned["bn1"].num_batches_tracked = Epochs * TrainBatches

====
